---- MODULE Spec2Model ----
(***************************************************************************)
(* A model of the secure process supervisor of sequb-ui                    *)
(* (src-tauri/src/security.rs) and of the host that owns the worker        *)
(* (src-tauri/src/main.rs), for a unix (Linux) build.                       *)
(*                                                                         *)
(* The specifications of the module:                                       *)
(*   Spec        the launcher: spawn_secure_sidecar, the worker's life     *)
(*               cycle and ProcessMonitor::kill_process;                   *)
(*   MonitorSpec ProcessMonitor::check_limits / kill_if_violated, one      *)
(*               system call per step, interleaved with the worker;        *)
(*   HostSpec    main.rs: setup, the output-draining task, the close       *)
(*               handler and the get_server_port query;                    *)
(*   ArgsSpec, PortSpec, FindSpec, VerifySpec, EnvSpec, IpcSpec            *)
(*               the validators and the launch environment: these keep no  *)
(*               state, so that a run is one call of the function, on an   *)
(*               input of a bounded set;                                   *)
(*   DigestSpec  both launch paths with the digest left unpinned;          *)
(*   MemSpec, KillSpec                                                     *)
(*               check_limits on a running worker and kill_process on any  *)
(*               pid of 32 bits, one call a run.                           *)
(***************************************************************************)
EXTENDS Integers, Sequences, FiniteSets, TLC

VARIABLES
    debug,        \* cfg(debug_assertions) of the build
    uid,          \* libc::getuid() of the calling process
    procs,        \* the OS process table, by process identifier
    nspawn,       \* calls of spawn_secure_sidecar so far
    lastSpawn,    \* arguments and outcome of the latest spawn_secure_sidecar
    lastKill,     \* outcome of the latest ProcessMonitor::kill_process
    monitor,      \* the ProcessMonitor under observation (MonitorSpec)
    mpc,          \* position of the monitor inside check_limits / kill_if_violated
    mop,          \* the monitor operation in progress
    mcheck,       \* result of check_limits in the operation in progress
    lastCheck,    \* outcome of the latest completed check_limits
    lastKiv,      \* outcome of the latest completed kill_if_violated
    sigLog,       \* termination signals sent by kill_if_violated
    hostPc,       \* position of the host application (HostSpec)
    sidecarPort,  \* SidecarState.port
    portWrites,   \* number of assignments to SidecarState.port
    sidecar,      \* state of the sidecar process started by setup
    rx,           \* events of the sidecar queued for the draining task
    nEvents,      \* events the sidecar has produced so far
    task,         \* state of the output-draining task
    closeHandler, \* whether the window-close handler is installed
    emitted,      \* "server-ready" notifications emitted to the window: their
                  \* number and the payload of the latest
    lastQuery,    \* outcome of the latest get_server_port
    everOk,       \* some get_server_port call has succeeded
    fin,          \* arguments of the latest call of a validator
    fout          \* what that call returned

vars == <<debug, uid, procs, nspawn, lastSpawn, lastKill, monitor, mpc, mop,
          mcheck, lastCheck, lastKiv, sigLog, hostPc, sidecarPort, portWrites,
          sidecar, rx, nEvents, task, closeHandler, emitted, lastQuery,
          everOk, fin, fout>>

pureVars     == <<fin, fout>>
launcherVars == <<debug, uid, procs, nspawn, lastSpawn, lastKill>>
monitorVars  == <<monitor, mpc, mop, mcheck, lastCheck, lastKiv, sigLog>>
hostVars     == <<hostPc, sidecarPort, portWrites, sidecar, rx, nEvents, task,
                  closeHandler, emitted, lastQuery, everOk>>

None == [none |-> TRUE]
Some(v) == [none |-> FALSE, val |-> v]

(***************************************************************************)
(* Result<T, String>                                                       *)
(***************************************************************************)
Ok(v)  == [ok |-> TRUE, val |-> v]
Err(e) == [ok |-> FALSE, err |-> e]
Unit   == <<>>

(***************************************************************************)
(* Bounds of the model                                                     *)
(***************************************************************************)
MaxSpawns == 2

(***************************************************************************)
(* Text: a string is a sequence of one-character strings.                  *)
(***************************************************************************)
HexDigits == <<"0","1","2","3","4","5","6","7","8","9","a","b","c","d","e","f">>

\* format!("{:x}", digest): two lower-case hex digits per byte
LowerHex(bytes) ==
    LET RECURSIVE hex(_)
        hex(i) == IF i > Len(bytes) THEN <<>>
                  ELSE <<HexDigits[(bytes[i] \div 16) + 1],
                         HexDigits[(bytes[i] % 16) + 1]>> \o hex(i + 1)
    IN hex(1)

\* Sha256, with the digest cut down to one byte; the mixing keeps the
\* different contents of the model apart.
Sha256New == 99
Sha256Update(h, chunk) ==
    LET RECURSIVE upd(_, _)
        upd(a, i) == IF i > Len(chunk) THEN a
                     ELSE upd((a * 31 + chunk[i] + 7) % 256, i + 1)
    IN upd(h, 1)
Sha256Finalize(h) == <<h>>

(***************************************************************************)
(* Inputs of the launcher                                                  *)
(***************************************************************************)
\* length of the read buffer of verify_binary_integrity (8192 in the source,
\* cut down so that the files of the model take several reads)
BufLen == 2

\* a binary on disk: missing, present but failing on read, or readable
Files ==
    { [kind |-> "missing",    bytes |-> <<>>],
      [kind |-> "unreadable", bytes |-> <<1, 2, 3>>],
      [kind |-> "ok",         bytes |-> <<1, 2, 3>>],
      [kind |-> "ok",         bytes |-> <<4>>] }

GoodHash == LowerHex(Sha256Finalize(Sha256Update(Sha256New, <<1, 2, 3>>)))

\* SecurityConfig::default()
DefaultConfig ==
    [allowed_ports |-> <<3000, 3001, 3002, 3003, 3004>>,
     binary_hash |-> <<>>,
     max_memory_mb |-> 512,
     max_cpu_percent |-> 50,
     sandbox_enabled |-> TRUE]

Configs ==
    { DefaultConfig,
      [DefaultConfig EXCEPT !.binary_hash = GoodHash],
      [DefaultConfig EXCEPT !.binary_hash = GoodHash,
                            !.sandbox_enabled = FALSE,
                            !.allowed_ports = <<80, 3000>>] }

Ports == {80, 3000}

\* the sets of ports on which a bind to 127.0.0.1 fails at the moment
BusySets == { {}, {80, 3000} }

Range(f) == { f[i] : i \in DOMAIN f }

(***************************************************************************)
(* security.rs: verification and port validation                           *)
(***************************************************************************)

\* a variant that takes a failing read for the end of the file
verify_binary_integrity_eof_on_error(file, expected_hash, dbg) ==
    IF expected_hash = <<>>
    THEN IF dbg THEN Ok(Unit) ELSE Err([kind |-> "HashNotConfigured"])
    ELSE IF file.kind = "missing" THEN Err([kind |-> "OpenFailed"])
    ELSE
      LET n == Len(file.bytes)
          RECURSIVE loop(_, _)
          \* one file.read(&mut buffer) per round, until it returns 0 bytes
          loop(h, off) ==
              LET bytes_read == IF n - off < BufLen THEN n - off ELSE BufLen
              IN IF bytes_read = 0 THEN h
                 ELSE loop(Sha256Update(h, SubSeq(file.bytes, off + 1, off + bytes_read)),
                           off + bytes_read)
          result == LowerHex(Sha256Finalize(loop(Sha256New, 0)))
      IN IF result # expected_hash
         THEN Err([kind |-> "IntegrityMismatch", expected |-> expected_hash, got |-> result])
         ELSE Ok(Unit)

verify_binary_integrity(file, expected_hash, dbg) ==
    IF expected_hash = <<>>
    THEN IF dbg THEN Ok(Unit) ELSE Err([kind |-> "HashNotConfigured"])
    ELSE IF file.kind = "missing" THEN Err([kind |-> "OpenFailed"])
    ELSE IF file.kind = "unreadable" THEN Err([kind |-> "ReadFailed"])
    ELSE
      LET n == Len(file.bytes)
          RECURSIVE loop(_, _)
          \* one file.read(&mut buffer) per round, until it returns 0 bytes
          loop(h, off) ==
              LET bytes_read == IF n - off < BufLen THEN n - off ELSE BufLen
              IN IF bytes_read = 0 THEN h
                 ELSE loop(Sha256Update(h, SubSeq(file.bytes, off + 1, off + bytes_read)),
                           off + bytes_read)
          result == LowerHex(Sha256Finalize(loop(Sha256New, 0)))
      IN IF result # expected_hash
         THEN Err([kind |-> "IntegrityMismatch", expected |-> expected_hash, got |-> result])
         ELSE Ok(Unit)

\* TcpListener::bind(("127.0.0.1", port)).is_err()
is_port_in_use(port, busy) == port \in busy

validate_port(port, config, busy) ==
    IF port \notin Range(config.allowed_ports) /\ (port < 1024 \/ port > 65535)
    THEN Err([kind |-> "PortOutsideRange", port |-> port])
    ELSE IF is_port_in_use(port, busy)
    THEN Err([kind |-> "PortInUse", port |-> port])
    ELSE Ok(port)

(***************************************************************************)
(* security.rs: spawn_secure_sidecar.  steps lists the steps the call went *)
(* through, created tells whether cmd.spawn() created an OS process.       *)
(***************************************************************************)
\* a variant that validates the port only after the process was created
spawn_secure_sidecar_late_port(binary, port, config, dbg, euid, busy, execOk) ==
    LET v == verify_binary_integrity(binary, config.binary_hash, dbg)
        p == validate_port(port, config, busy)
    IN IF ~v.ok THEN [result |-> v, steps |-> <<"verify">>, created |-> FALSE]
       ELSE IF euid = 0
       THEN [result |-> Err([kind |-> "RunningAsRoot"]),
             steps |-> <<"verify", "getuid">>, created |-> FALSE]
       ELSE IF ~execOk
       THEN [result |-> Err([kind |-> "SpawnFailed"]),
             steps |-> <<"verify", "getuid", "spawn">>, created |-> FALSE]
       ELSE IF ~p.ok
       THEN [result |-> p, steps |-> <<"verify", "getuid", "spawn", "validate_port">>,
             created |-> TRUE]
       ELSE [result |-> Ok([port |-> p.val]),
             steps |-> <<"verify", "getuid", "spawn", "validate_port">>,
             created |-> TRUE]

spawn_secure_sidecar(binary, port, config, dbg, euid, busy, execOk) ==
    LET v == verify_binary_integrity(binary, config.binary_hash, dbg)
        p == validate_port(port, config, busy)
    IN IF ~v.ok THEN [result |-> v, steps |-> <<"verify">>, created |-> FALSE]
       ELSE IF ~p.ok
       THEN [result |-> p, steps |-> <<"verify", "validate_port">>, created |-> FALSE]
       ELSE IF euid = 0
       THEN [result |-> Err([kind |-> "RunningAsRoot"]),
             steps |-> <<"verify", "validate_port", "getuid">>, created |-> FALSE]
       ELSE IF ~execOk
       THEN [result |-> Err([kind |-> "SpawnFailed"]),
             steps |-> <<"verify", "validate_port", "getuid", "spawn">>,
             created |-> FALSE]
       ELSE [result |-> Ok([port |-> p.val]),
             steps |-> <<"verify", "validate_port", "getuid", "spawn">>,
             created |-> TRUE]

(***************************************************************************)
(* The OS process table                                                    *)
(***************************************************************************)
Pids == 1 .. MaxSpawns

NoProc == [state |-> "none", ignoresTerm |-> FALSE, sandboxFlag |-> FALSE,
           isolation |-> {}, rssKb |-> 0]

SandboxMeasures == {"namespaces", "chroot", "privdrop", "rlimits"}

Exists(tbl, p) == p \in DOMAIN tbl /\ tbl[p].state \in {"running", "zombie"}

SIGTERM == 15
SIGKILL == 9

\* libc::kill(pid, sig) on a positive pid: 0 when the process exists (a zombie
\* included), -1 otherwise; SIGKILL, and SIGTERM unless the process ignores it,
\* end a running process
libc_kill(tbl, pid, sig) ==
    IF ~Exists(tbl, pid) THEN [ret |-> -1, tbl |-> tbl]
    ELSE IF tbl[pid].state = "running" /\ (sig = SIGKILL \/ ~tbl[pid].ignoresTerm)
    THEN [ret |-> 0, tbl |-> [tbl EXCEPT ![pid].state = "zombie"]]
    ELSE [ret |-> 0, tbl |-> tbl]

\* ProcessMonitor::kill_process, cfg(unix)
kill_process(tbl, pid) ==
    LET r1 == libc_kill(tbl, pid, SIGTERM)
    IN IF r1.ret # 0
       THEN LET r2 == libc_kill(r1.tbl, pid, SIGKILL)
            IN IF r2.ret # 0
               THEN [result |-> Err([kind |-> "FailedToKill"]), tbl |-> r2.tbl,
                     signals |-> <<SIGTERM, SIGKILL>>]
               ELSE [result |-> Ok(Unit), tbl |-> r2.tbl,
                     signals |-> <<SIGTERM, SIGKILL>>]
       ELSE [result |-> Ok(Unit), tbl |-> r1.tbl, signals |-> <<SIGTERM>>]

(***************************************************************************)
(* Launcher: actions                                                       *)
(***************************************************************************)
\* one call of spawn_secure_sidecar; the worker it starts is an opaque binary
\* that may or may not react to SIGTERM
SpawnWith(files, ports, configs, busysets) ==
    /\ nspawn < MaxSpawns
    /\ \E binary \in files, port \in ports, config \in configs,
          busy \in busysets, execOk \in BOOLEAN :
         LET r == spawn_secure_sidecar(binary, port, config, debug, uid, busy, execOk)
             pid == nspawn + 1
         IN /\ lastSpawn' = [binary |-> binary, port |-> port, config |-> config,
                             busy |-> busy, execOk |-> execOk,
                             result |-> r.result, steps |-> r.steps,
                             pid |-> IF r.created THEN pid ELSE 0]
            \* the call reads no config.sandbox_enabled and applies none of
            \* sandbox::setup_sandbox, sandbox::set_resource_limits
            /\ IF r.created
               THEN \E ign \in BOOLEAN :
                      procs' = [procs EXCEPT ![pid] =
                                  [state |-> "running", ignoresTerm |-> ign,
                                   sandboxFlag |-> config.sandbox_enabled,
                                   isolation |-> {}, rssKb |-> 1000]]
               ELSE procs' = procs
    /\ nspawn' = nspawn + 1
    /\ UNCHANGED <<pureVars, debug, uid, lastKill, monitorVars, hostVars>>

Spawn == SpawnWith(Files, Ports, Configs, BusySets)

\* the worker exits on its own
WorkerExit ==
    /\ \E p \in Pids : /\ procs[p].state = "running"
                       /\ procs' = [procs EXCEPT ![p].state = "zombie"]
    /\ UNCHANGED <<pureVars, debug, uid, nspawn, lastSpawn, lastKill, monitorVars, hostVars>>

\* the exited worker is waited for; its identifier no longer names a process
Reap ==
    /\ \E p \in Pids : /\ procs[p].state = "zombie"
                       /\ procs' = [procs EXCEPT ![p].state = "gone"]
    /\ UNCHANGED <<pureVars, debug, uid, nspawn, lastSpawn, lastKill, monitorVars, hostVars>>

\* ProcessMonitor::new(pid, config).kill_process()
KillProcess ==
    /\ \E pid \in Pids :
         LET k == kill_process(procs, pid)
         IN /\ procs' = k.tbl
            /\ lastKill' = [pid |-> pid, before |-> procs[pid].state,
                            result |-> k.result, signals |-> k.signals,
                            after |-> k.tbl[pid].state]
    /\ UNCHANGED <<pureVars, debug, uid, nspawn, lastSpawn, monitorVars, hostVars>>

(***************************************************************************)
(* Monitor: ProcessMonitor::check_limits and kill_if_violated, one system  *)
(* call per step                                                           *)
(***************************************************************************)
\* resident set sizes (kB) a worker can be observed with
RssValues == {1000, 524288, 525311, 525312}

\* the worker under observation is started by the launcher, which tries again
\* when the start failed
MonitorSpawn ==
    /\ IF lastSpawn = None THEN TRUE ELSE ~lastSpawn.result.ok
    /\ SpawnWith({f \in Files : f.kind = "ok"}, {3000},
                 {c \in Configs : c.binary_hash = GoodHash /\ c.sandbox_enabled}, {{}})

\* ProcessMonitor::new(pid, config)
ProcessMonitor_new(pid, config) ==
    [pid |-> pid, max_memory_mb |-> config.max_memory_mb,
     max_cpu_percent |-> config.max_cpu_percent]

MonitorNew ==
    /\ monitor = None
    /\ IF lastSpawn = None THEN FALSE ELSE lastSpawn.result.ok
    /\ monitor' = ProcessMonitor_new(lastSpawn.pid, lastSpawn.config)
    /\ UNCHANGED <<pureVars, launcherVars, mpc, mop, mcheck, lastCheck, lastKiv, sigLog, hostVars>>

\* the worker's resident set grows or shrinks
MemChange ==
    /\ \E p \in Pids, v \in RssValues :
         /\ procs[p].state = "running"
         /\ procs[p].rssKb # v
         /\ procs' = [procs EXCEPT ![p].rssKb = v]
    /\ UNCHANGED <<pureVars, debug, uid, nspawn, lastSpawn, lastKill, monitorVars, hostVars>>

\* the caller enters check_limits or kill_if_violated
MonitorCall ==
    /\ monitor # None
    /\ mpc = "idle"
    /\ \E op \in {"check_limits", "kill_if_violated"} : mop' = op
    /\ mpc' = "exists"
    /\ UNCHANGED <<pureVars, launcherVars, monitor, mcheck, lastCheck, lastKiv, sigLog, hostVars>>

\* check_limits returns res: to its caller, or into kill_if_violated
CheckReturns(res) ==
    /\ mcheck' = res
    /\ lastCheck' = [pid |-> monitor.pid, result |-> res,
                     target |-> procs[monitor.pid].state]
    /\ IF mop = "kill_if_violated"
       THEN IF res.ok
            THEN /\ mpc' = "idle"
                 /\ lastKiv' = [pid |-> monitor.pid, check |-> res, result |-> Ok(Unit),
                                signals |-> <<>>, after |-> procs[monitor.pid].state]
            ELSE /\ mpc' = "kill"
                 /\ lastKiv' = lastKiv
       ELSE /\ mpc' = "idle"
            /\ lastKiv' = lastKiv
    /\ UNCHANGED <<pureVars, launcherVars, monitor, mop, sigLog, hostVars>>

\* Path::new(&stat_path).exists()
CheckExists ==
    /\ mpc = "exists"
    /\ IF Exists(procs, monitor.pid)
       THEN /\ mpc' = "read_stat"
            /\ UNCHANGED <<pureVars, launcherVars, monitor, mop, mcheck, lastCheck, lastKiv,
                           sigLog, hostVars>>
       ELSE CheckReturns(Ok(Unit))

\* fs::read_to_string(&stat_path)?
CheckReadStat ==
    /\ mpc = "read_stat"
    /\ IF Exists(procs, monitor.pid)
       THEN /\ mpc' = "read_status"
            /\ UNCHANGED <<pureVars, launcherVars, monitor, mop, mcheck, lastCheck, lastKiv,
                           sigLog, hostVars>>
       ELSE CheckReturns(Err([kind |-> "ReadStatsFailed"]))

\* the VmRSS line of /proc/<pid>/status: a running process has one, an exited
\* one has none
VmRSS(tbl, pid) ==
    IF tbl[pid].state = "running" THEN <<tbl[pid].rssKb>> ELSE <<>>

\* fs::read_to_string(&status_path) and the comparison with max_memory_mb
check_memory(tbl, mon) ==
    IF ~Exists(tbl, mon.pid) THEN Ok(Unit)
    ELSE LET rss == VmRSS(tbl, mon.pid)
         IN IF rss = <<>> THEN Ok(Unit)
            ELSE LET mb == rss[1] \div 1024
                 IN IF mb > mon.max_memory_mb
                    THEN Err([kind |-> "MemoryExceeded", mb |-> mb,
                              limit |-> mon.max_memory_mb])
                    ELSE Ok(Unit)

CheckReadStatus ==
    /\ mpc = "read_status"
    /\ CheckReturns(check_memory(procs, monitor))

\* kill_if_violated after a failed check: self.kill_process()? and the error
KivKill ==
    /\ mpc = "kill"
    /\ LET k == kill_process(procs, monitor.pid)
       IN /\ procs' = k.tbl
          /\ sigLog' = sigLog \cup { [pid |-> monitor.pid, sig |-> k.signals[i],
                                      target |-> procs[monitor.pid].state]
                                     : i \in DOMAIN k.signals }
          /\ lastKiv' = [pid |-> monitor.pid, check |-> mcheck,
                         result |-> IF k.result.ok
                                    THEN Err([kind |-> "KilledDueTo", cause |-> mcheck.err])
                                    ELSE k.result,
                         signals |-> k.signals, after |-> k.tbl[monitor.pid].state]
    /\ mpc' = "idle"
    /\ UNCHANGED <<pureVars, debug, uid, nspawn, lastSpawn, lastKill, monitor, mop, mcheck,
                   lastCheck, hostVars>>

(***************************************************************************)
(* Text functions used by the output-draining task                         *)
(***************************************************************************)
Marker == <<"S","e","r","v","e","r"," ","l","i","s","t","e","n","i","n","g"," ","o","n">>

\* a byte that is not valid UTF-8, and the replacement character U+FFFD
BadByte == "\\xFF"
Replacement == "\\uFFFD"

\* String::from_utf8_lossy
from_utf8_lossy(bytes) ==
    [i \in DOMAIN bytes |-> IF bytes[i] = BadByte THEN Replacement ELSE bytes[i]]

\* str::contains
Contains(s, pat) ==
    \E i \in 0 .. (Len(s) - Len(pat)) : SubSeq(s, i + 1, i + Len(pat)) = pat

\* str::split(ch), collected: the pieces between the occurrences of ch
Split(s, ch) ==
    LET RECURSIVE go(_, _, _)
        go(i, cur, acc) ==
            IF i > Len(s) THEN Append(acc, cur)
            ELSE IF s[i] = ch THEN go(i + 1, <<>>, Append(acc, cur))
            ELSE go(i + 1, Append(cur, s[i]), acc)
    IN go(1, <<>>, <<>>)

\* Iterator::last
Last(pieces) == IF pieces = <<>> THEN None ELSE Some(pieces[Len(pieces)])

WhiteSpace == {" ", "\t", "\n", "\r"}

\* str::trim
Trim(s) ==
    LET RECURSIVE left(_)
        left(i) == IF i <= Len(s) /\ s[i] \in WhiteSpace THEN left(i + 1) ELSE i
        RECURSIVE right(_, _)
        right(j, lo) == IF j >= lo /\ s[j] \in WhiteSpace THEN right(j - 1, lo) ELSE j
        lo == left(1)
    IN SubSeq(s, lo, right(Len(s), lo))

DigitValue(c) ==
    CASE c = "0" -> 0 [] c = "1" -> 1 [] c = "2" -> 2 [] c = "3" -> 3 [] c = "4" -> 4
      [] c = "5" -> 5 [] c = "6" -> 6 [] c = "7" -> 7 [] c = "8" -> 8 [] c = "9" -> 9
      [] OTHER -> -1

U16Max == 65535

\* str::parse::<u16>: an optional '+', then one or more decimal digits,
\* accumulated with checked arithmetic
parse_u16(s) ==
    LET digits == IF s # <<>> /\ s[1] = "+" THEN Tail(s) ELSE s
        RECURSIVE acc(_, _)
        acc(i, r) ==
            IF i > Len(digits) THEN Ok(r)
            ELSE LET d == DigitValue(digits[i])
                 IN IF d < 0 THEN Err([kind |-> "InvalidDigit"])
                    ELSE IF r * 10 > U16Max \/ r * 10 + d > U16Max
                    THEN Err([kind |-> "PosOverflow"])
                    ELSE acc(i + 1, r * 10 + d)
    IN IF s = <<>> THEN Err([kind |-> "Empty"])
       ELSE IF digits = <<>> THEN Err([kind |-> "InvalidDigit"])
       ELSE acc(1, 0)

(***************************************************************************)
(* main.rs: the host                                                       *)
(***************************************************************************)
MaxEvents == 3
MaxQueue == 1

\* what may follow the marker on a line of the worker
ReportTails ==
    { <<":", "3", "0", "0", "0">>,
      <<":", " ", "3", "0", "0", "0", " ", "\n">>,
      <<":", "6", "5", "5", "3", "5">>,
      <<":", "6", "5", "5", "3", "6">>,
      <<":", "+", "8", "0">>,
      <<":", "-", "1">>,
      <<":", "3", "0", "x">>,
      <<":">>,
      <<":", "3", "0", "0", "0", ":">>,
      <<" ", "3", "0", "0", "0">>,
      <<":", "0">>,
      <<" ", "h", "t", "t", "p", ":", "/", "/", "1", "2", "7", ".", "0", ".", "0", ".", "1", ":", "3", "0", "0", "1">>,
      <<":", "3", "0", BadByte>> }

\* lines without the marker in front
PlainLines ==
    { <<>>,
      <<":", "3", "0", "0", "0">>,
      <<"l", "i", "s", "t", "e", "n", "i", "n", "g", " ", "o", "n", ":", "3", "0", "0", "0">>,
      <<"x", ":", "S", "e", "r", "v", "e", "r", " ", "l", "i", "s", "t", "e", "n", "i", "n", "g", " ", "o", "n", " ", "3", "0", "0", "0">> }

StdoutLines == { Marker \o tl : tl \in ReportTails } \cup PlainLines
StderrLines == { Marker \o <<":", "3", "0", "0", "0">>, <<"p", "a", "n", "i", "c">> }

\* CommandEvent
OutputEvents ==
    { [kind |-> "Stdout", line |-> l] : l \in StdoutLines } \cup
    { [kind |-> "Stderr", line |-> l] : l \in StderrLines } \cup
    { [kind |-> "Error", line |-> <<"e", "r", "r">>] }
Terminated == [kind |-> "Terminated", line |-> <<>>]

\* the digest pinned in setup for the Linux build
ExpectedHash ==
    <<"Y", "O", "U", "R", "_", "L", "I", "N", "U", "X", "_", "B", "I", "N", "A", "R", "Y", "_", "S", "H", "A", "2", "5", "6", "_", "H", "A", "S", "H">>

\* fn get_server_port
get_server_port(port) ==
    IF port = None THEN Err([kind |-> "PortNotAvailable"]) ELSE Ok(port.val)

\* fn verify_binary_integrity of main.rs: Result<bool, String>
\* a variant that takes the placeholder for a digest that matches
main_verify_binary_integrity_placeholder_passes(file, expected_hash) ==
    IF file.kind = "missing" THEN Err([kind |-> "OpenFailed"])
    ELSE IF file.kind = "unreadable" THEN Err([kind |-> "ReadFailed"])
    ELSE LET calculated_hash ==
                 LowerHex(Sha256Finalize(Sha256Update(Sha256New, file.bytes)))
         IN Ok(calculated_hash = expected_hash \/ expected_hash = ExpectedHash)

main_verify_binary_integrity(file, expected_hash) ==
    IF file.kind = "missing" THEN Err([kind |-> "OpenFailed"])
    ELSE IF file.kind = "unreadable" THEN Err([kind |-> "ReadFailed"])
    ELSE LET calculated_hash ==
                 LowerHex(Sha256Finalize(Sha256Update(Sha256New, file.bytes)))
         IN Ok(calculated_hash = expected_hash)

\* fn find_free_port: the port the OS hands out for a bind to port 0, or 3000
EphemeralPorts == {49152}
find_free_port(bound) == IF bound = None THEN 3000 ELSE bound.val

\* a variant that takes the port from any line, marker or not
drain_event_any_line(port, event) ==
    IF event.kind = "Stdout"
    THEN LET output == from_utf8_lossy(event.line)
             port_str == Last(Split(output, ":"))
             parsed == IF port_str = None THEN Err([kind |-> "Empty"])
                       ELSE parse_u16(Trim(port_str.val))
         IN IF port_str # None /\ parsed.ok
            THEN [port |-> Some(parsed.val), writes |-> 1,
                  emits |-> <<parsed.val>>, brk |-> FALSE]
            ELSE [port |-> port, writes |-> 0, emits |-> <<>>, brk |-> FALSE]
    ELSE IF event.kind = "Terminated"
    THEN [port |-> port, writes |-> 0, emits |-> <<>>, brk |-> TRUE]
    ELSE [port |-> port, writes |-> 0, emits |-> <<>>, brk |-> FALSE]

\* a variant that forgets the port when the sidecar has terminated
drain_event_forgets_port(port, event) ==
    IF event.kind = "Stdout"
    THEN LET output == from_utf8_lossy(event.line)
             port_str == Last(Split(output, ":"))
             parsed == IF port_str = None THEN Err([kind |-> "Empty"])
                       ELSE parse_u16(Trim(port_str.val))
         IN IF Contains(output, Marker) /\ port_str # None /\ parsed.ok
            THEN [port |-> Some(parsed.val), writes |-> 1,
                  emits |-> <<parsed.val>>, brk |-> FALSE]
            ELSE [port |-> port, writes |-> 0, emits |-> <<>>, brk |-> FALSE]
    ELSE IF event.kind = "Terminated"
    THEN [port |-> None, writes |-> 1, emits |-> <<>>, brk |-> TRUE]
    ELSE [port |-> port, writes |-> 0, emits |-> <<>>, brk |-> FALSE]

\* one round of the loop of the draining task: the new SidecarState.port, the
\* "server-ready" payloads emitted, and whether the loop is left
drain_event(port, event) ==
    IF event.kind = "Stdout"
    THEN LET output == from_utf8_lossy(event.line)
             port_str == Last(Split(output, ":"))
             parsed == IF port_str = None THEN Err([kind |-> "Empty"])
                       ELSE parse_u16(Trim(port_str.val))
         IN IF Contains(output, Marker) /\ port_str # None /\ parsed.ok
            THEN [port |-> Some(parsed.val), writes |-> 1,
                  emits |-> <<parsed.val>>, brk |-> FALSE]
            ELSE [port |-> port, writes |-> 0, emits |-> <<>>, brk |-> FALSE]
    ELSE IF event.kind = "Terminated"
    THEN [port |-> port, writes |-> 0, emits |-> <<>>, brk |-> TRUE]
    ELSE [port |-> port, writes |-> 0, emits |-> <<>>, brk |-> FALSE]

\* a variant of the setup that records the port before it spawns the sidecar
Setup_port_before_spawn ==
    /\ hostPc = "start"
    /\ \E binary \in Files, bound \in {None} \cup {Some(q) : q \in EphemeralPorts},
          spawnOk \in BOOLEAN :
         LET v == main_verify_binary_integrity(binary, ExpectedHash)
             port == find_free_port(bound)
         IN IF ~debug /\ ~(v.ok /\ v.val)
            THEN \* return Err(..) from setup
                 /\ hostPc' = "setup_failed"
                 /\ UNCHANGED <<sidecarPort, portWrites, sidecar, task, closeHandler>>
            ELSE IF ~spawnOk
            THEN \* .expect("Failed to spawn sidecar")
                 /\ hostPc' = "panicked"
                 /\ sidecarPort' = Some(port)
                 /\ portWrites' = portWrites + 1
                 /\ UNCHANGED <<sidecar, task, closeHandler>>
            ELSE /\ hostPc' = "running"
                 /\ sidecar' = "alive"
                 /\ sidecarPort' = Some(port)
                 /\ portWrites' = portWrites + 1
                 /\ task' = "draining"
                 /\ closeHandler' = TRUE
    /\ UNCHANGED <<pureVars, launcherVars, monitorVars, rx, nEvents, emitted, lastQuery, everOk>>

\* the setup closure of main, as a whole
Setup ==
    /\ hostPc = "start"
    /\ \E binary \in Files, bound \in {None} \cup {Some(q) : q \in EphemeralPorts},
          spawnOk \in BOOLEAN :
         LET v == main_verify_binary_integrity(binary, ExpectedHash)
             port == find_free_port(bound)
         IN IF ~debug /\ ~(v.ok /\ v.val)
            THEN \* return Err(..) from setup
                 /\ hostPc' = "setup_failed"
                 /\ UNCHANGED <<sidecarPort, portWrites, sidecar, task, closeHandler>>
            ELSE IF ~spawnOk
            THEN \* .expect("Failed to spawn sidecar")
                 /\ hostPc' = "panicked"
                 /\ UNCHANGED <<sidecarPort, portWrites, sidecar, task, closeHandler>>
            ELSE /\ hostPc' = "running"
                 /\ sidecar' = "alive"
                 /\ sidecarPort' = Some(port)
                 /\ portWrites' = portWrites + 1
                 /\ task' = "draining"
                 /\ closeHandler' = TRUE
    /\ UNCHANGED <<pureVars, launcherVars, monitorVars, rx, nEvents, emitted, lastQuery, everOk>>

\* the sidecar writes a line or reports an error
WorkerEmit ==
    /\ sidecar = "alive"
    /\ nEvents < MaxEvents
    /\ Len(rx) < MaxQueue
    /\ \E e \in OutputEvents : rx' = Append(rx, e)
    /\ nEvents' = nEvents + 1
    /\ UNCHANGED <<pureVars, launcherVars, monitorVars, hostPc, sidecarPort, portWrites, sidecar,
                   task, closeHandler, emitted, lastQuery, everOk>>

\* the sidecar ends on its own
WorkerTerminated ==
    /\ sidecar = "alive"
    /\ sidecar' = "terminated"
    /\ rx' = Append(rx, Terminated)
    /\ UNCHANGED <<pureVars, launcherVars, monitorVars, hostPc, sidecarPort, portWrites, nEvents,
                   task, closeHandler, emitted, lastQuery, everOk>>

\* WindowEvent::CloseRequested: let _ = sidecar_kill.kill()
CloseRequested ==
    /\ closeHandler
    /\ hostPc = "running"
    /\ IF sidecar = "alive"
       THEN /\ sidecar' = "terminated"
            /\ rx' = Append(rx, Terminated)
       ELSE UNCHANGED <<sidecar, rx>>
    /\ hostPc' = "closing"
    /\ UNCHANGED <<pureVars, launcherVars, monitorVars, sidecarPort, portWrites, nEvents,
                   task, closeHandler, emitted, lastQuery, everOk>>

\* window_clone.emit("server-ready", payload) for every payload
Emit(em, payloads) ==
    IF payloads = <<>> THEN em
    ELSE [count |-> em.count + Len(payloads), last |-> Some(payloads[Len(payloads)])]

\* while let Some(event) = rx.recv().await { match event { .. } }
Drain ==
    /\ task = "draining"
    /\ rx # <<>>
    /\ LET d == drain_event(sidecarPort, Head(rx))
       IN /\ sidecarPort' = d.port
          /\ portWrites' = portWrites + d.writes
          /\ emitted' = Emit(emitted, d.emits)
          /\ task' = IF d.brk THEN "done" ELSE "draining"
    /\ rx' = Tail(rx)
    /\ UNCHANGED <<pureVars, launcherVars, monitorVars, hostPc, sidecar, nEvents, closeHandler,
                   lastQuery, everOk>>

\* the UI invokes the get_server_port command
GetServerPort ==
    /\ hostPc \in {"start", "running", "closing"}
    /\ LET r == get_server_port(sidecarPort)
       IN /\ lastQuery' = [seen |-> sidecarPort, result |-> r]
          /\ everOk' = (everOk \/ r.ok)
    /\ UNCHANGED <<pureVars, launcherVars, monitorVars, hostPc, sidecarPort, portWrites, sidecar,
                   rx, nEvents, task, closeHandler, emitted>>

(***************************************************************************)
(* Initial states and specifications                                       *)
(***************************************************************************)
Uids == {0, 1000}

Init ==
    /\ debug \in BOOLEAN
    /\ uid \in Uids
    /\ procs = [p \in Pids |-> NoProc]
    /\ nspawn = 0
    /\ lastSpawn = None
    /\ lastKill = None
    /\ monitor = None
    /\ mpc = "idle"
    /\ mop = "none"
    /\ mcheck = None
    /\ lastCheck = None
    /\ lastKiv = None
    /\ sigLog = {}
    /\ hostPc = "start"
    /\ sidecarPort = None
    /\ portWrites = 0
    /\ sidecar = "none"
    /\ rx = <<>>
    /\ nEvents = 0
    /\ task = "none"
    /\ closeHandler = FALSE
    /\ emitted = [count |-> 0, last |-> None]
    /\ lastQuery = None
    /\ everOk = FALSE
    /\ fin = None
    /\ fout = None

\* the launcher
Next ==
    \/ Spawn
    \/ WorkerExit
    \/ Reap
    \/ KillProcess

Spec == Init /\ [][Next]_vars

\* the resource monitor
MonitorNext ==
    \/ MonitorSpawn
    \/ MonitorNew
    \/ MemChange
    \/ WorkerExit
    \/ Reap
    \/ MonitorCall
    \/ CheckExists
    \/ CheckReadStat
    \/ CheckReadStatus
    \/ KivKill

MonitorSpec == Init /\ [][MonitorNext]_vars

\* the host
HostNext ==
    \/ Setup
    \/ WorkerEmit
    \/ WorkerTerminated
    \/ CloseRequested
    \/ Drain
    \/ GetServerPort

\* main.rs never reads the user identifier
HostInit == Init /\ uid = 1000

HostSpec == HostInit /\ [][HostNext]_vars

(***************************************************************************)
(* Properties of the launcher (Spec)                                       *)
(***************************************************************************)
SpawnSteps == <<"verify", "validate_port", "getuid", "spawn">>

\* C1: spawn_secure_sidecar runs verification, port validation, the superuser
\* check and process creation in this order; when a step before process
\* creation fails, the error of the first failing step is returned and the
\* process table is left as it was.
C1_AllOrNothing ==
    [][ nspawn' = nspawn + 1 =>
          LET s == lastSpawn'
              v == verify_binary_integrity(s.binary, s.config.binary_hash, debug)
              p == validate_port(s.port, s.config, s.busy)
              n == Len(s.steps)
          IN /\ n \in 1..4 /\ s.steps = SubSeq(SpawnSteps, 1, n)
             /\ ~v.ok => s.result = v /\ n = 1 /\ procs' = procs
             /\ (v.ok /\ ~p.ok) => s.result = p /\ n = 2 /\ procs' = procs
             /\ (v.ok /\ p.ok /\ uid = 0) =>
                    /\ s.result = Err([kind |-> "RunningAsRoot"])
                    /\ n = 3 /\ procs' = procs
             /\ ~s.result.ok => procs' = procs
             /\ procs' # procs => n = 4 /\ s.result.ok ]_vars

\* a spawn failed at port validation, after a successful verification, and
\* no process exists
C1_Witness ==
    /\ lastSpawn # None
    /\ lastSpawn.steps = <<"verify", "validate_port">>
    /\ lastSpawn.result = Err([kind |-> "PortInUse", port |-> 3000])
    /\ \A q \in Pids : procs[q].state = "none"

\* C2: a worker created under sandbox_enabled = true runs with every sandbox
\* measure applied.
C2_SandboxedWhenEnabled ==
    \A q \in Pids :
        (procs[q].state = "running" /\ procs[q].sandboxFlag)
            => procs[q].isolation = SandboxMeasures

\* C3: kill_process on an identifier whose process is already dead returns Ok.
C3_KillIdempotent ==
    lastKill # None =>
        (lastKill.before \in {"zombie", "gone"} => lastKill.result.ok)

\* C4: kill_process returns Ok only when the process has been terminated, and
\* an error only after the forceful signal was tried as well.
C4_KillTerminates ==
    lastKill # None =>
        /\ lastKill.result.ok => lastKill.after # "running"
        /\ ~lastKill.result.ok => lastKill.signals = <<SIGTERM, SIGKILL>>

\* C7: at most one worker is alive at any time.
C7_OneLiveWorker ==
    Cardinality({ q \in Pids : procs[q].state = "running" }) <= 1

(***************************************************************************)
(* Properties of the monitor (MonitorSpec)                                 *)
(***************************************************************************)
\* C5: a check_limits that returns when the worker has exited returns Ok, and
\* kill_if_violated sends no signal to the identifier of an exited worker.
C5_ExitedIsNoViolation ==
    /\ lastCheck # None =>
         (lastCheck.target \in {"zombie", "gone"} => lastCheck.result.ok)
    /\ \A sg \in sigLog : sg.target = "running"

\* C6: kill_if_violated returns Ok and sends no signal when check_limits found
\* no violation; otherwise the process is terminated and the error returned
\* names the cause reported by check_limits.
C6_KillIfViolated ==
    lastKiv # None =>
        IF lastKiv.check.ok
        THEN lastKiv.result.ok /\ lastKiv.signals = <<>>
        ELSE /\ lastKiv.after # "running"
             /\ lastKiv.result = Err([kind |-> "KilledDueTo", cause |-> lastKiv.check.err])

(***************************************************************************)
(* Properties of the host (HostSpec)                                       *)
(***************************************************************************)
\* C8: SidecarState.port is assigned at most once during a run of the host.
C8_PortWrittenOnce == portWrites <= 1

\* C9: get_server_port fails exactly when no port is recorded and returns the
\* recorded port otherwise; once a call has succeeded a port stays recorded,
\* so every later call succeeds.
C9_PortQuery ==
    /\ lastQuery # None =>
         lastQuery.result = (IF lastQuery.seen = None
                             THEN Err([kind |-> "PortNotAvailable"])
                             ELSE Ok(lastQuery.seen.val))
    /\ everOk => sidecarPort # None

\* a call returned a port the worker reported itself, and the worker has
\* terminated and its output is drained
C9_Witness ==
    /\ everOk
    /\ lastQuery # None
    /\ lastQuery.result = Ok(3001)
    /\ sidecar = "terminated"
    /\ task = "done"

\* The line carries the marker
HasMarker(s) ==
    \E i \in 1 .. Len(s) :
        \A k \in 1 .. Len(Marker) : i + k - 1 <= Len(s) /\ s[i + k - 1] = Marker[k]

\* The text behind the last colon of s, without the white space around it
TextAfterLastColon(s) ==
    LET colons == { i \in 1 .. Len(s) : s[i] = ":" }
        from == IF colons = {} THEN 1
                ELSE (CHOOSE i \in colons : \A j \in colons : j <= i) + 1
        body == { i \in from .. Len(s) : s[i] \notin WhiteSpace }
    IN IF body = {} THEN <<>>
       ELSE LET lo == CHOOSE i \in body : \A j \in body : i <= j
                hi == CHOOSE i \in body : \A j \in body : j <= i
            IN [k \in 1 .. (hi - lo + 1) |-> s[lo + k - 1]]

RECURSIVE Pow10(_)
Pow10(n) == IF n = 0 THEN 1 ELSE 10 * Pow10(n - 1)

\* The number a text of decimal digits, with an optional '+' in front,
\* denotes; -1 when the text is no number of 16 bits
PortNumberOf(t) ==
    LET d == IF t # <<>> /\ t[1] = "+" THEN Tail(t) ELSE t
        RECURSIVE sum(_)
        sum(i) == IF i > Len(d) THEN 0
                  ELSE DigitValue(d[i]) * Pow10(Len(d) - i) + sum(i + 1)
    IN IF d = <<>> \/ (\E i \in 1 .. Len(d) : DigitValue(d[i]) < 0) THEN -1
       ELSE IF sum(1) <= 65535 THEN sum(1) ELSE -1

\* C10: the draining task, handling a stdout line that carries the marker and
\* ends, behind its last colon, in a 16-bit number, records that number as the
\* port and emits one "server-ready" notification with it; handling any other
\* event it leaves the port alone and emits nothing.
C10_SelfReport ==
    [][ (task = "draining" /\ rx # <<>> /\ rx' = Tail(rx)) =>
          LET e == Head(rx)
              n == PortNumberOf(TextAfterLastColon(e.line))
          IN IF e.kind = "Stdout" /\ HasMarker(e.line) /\ n >= 0
             THEN /\ sidecarPort' = Some(n)
                  /\ emitted' = [count |-> emitted.count + 1, last |-> Some(n)]
             ELSE sidecarPort' = sidecarPort /\ emitted' = emitted ]_vars

\* the line "Server listening on http://127.0.0.1:3001", the only source of
\* port 3001, was handled: the port is recorded and was the latest payload
C10_Witness ==
    /\ sidecarPort = Some(3001)
    /\ emitted.count >= 1
    /\ emitted.last = Some(3001)

(***************************************************************************)
(* security.rs: validate_command_args                                      *)
(***************************************************************************)
\* the most arguments of a list handed to validate_command_args
MaxArgs == 2

\* str::starts_with
StartsWith(s, pat) == Len(s) >= Len(pat) /\ SubSeq(s, 1, Len(pat)) = pat

\* the character U+0060, which a string of TLA+ cannot hold
Backquote == "U+0060"

\* the class \s of the regex crate, as far as the texts of the model go
RegexSpace == {" ", "\t", "\n", "\r"}

\* the character class of ; & | $ and the backquote
MatchShellMeta(s) == \E i \in 1 .. Len(s) : s[i] \in {";", "&", "|", Backquote, "$"}

\* r"\.\./"
MatchPathTraversal(s) == Contains(s, <<".",".","/">>)

\* r"^-"
MatchLeadingDash(s) == s # <<>> /\ s[1] = "-"

\* r"\$\("
MatchCommandSubstitution(s) == Contains(s, <<"$","(">>)

\* r">\s*\/dev\/"
MatchDeviceRedirect(s) ==
    \E i \in 1 .. Len(s) :
        /\ s[i] = ">"
        /\ \E j \in (i + 1) .. (Len(s) - 4) :
              /\ \A k \in (i + 1) .. (j - 1) : s[k] \in RegexSpace
              /\ SubSeq(s, j, j + 4) = <<"/","d","e","v","/">>

\* the loop over dangerous_patterns: some pattern matches
is_dangerous(arg) ==
    \/ MatchShellMeta(arg)
    \/ MatchPathTraversal(arg)
    \/ MatchLeadingDash(arg)
    \/ MatchCommandSubstitution(arg)
    \/ MatchDeviceRedirect(arg)

\* the check of a port argument: None when the argument may pass
port_argument_error(arg) ==
    IF StartsWith(arg, <<"-","-","p","o","r","t","=">>) \/ StartsWith(arg, <<"-","p">>)
    THEN LET port_str == Last(Split(arg, "=")).val
             port == parse_u16(port_str)
         IN IF port.ok
            THEN IF port.val < 1024 \/ port.val > 65535
                 THEN Some([kind |-> "InvalidPortNumber", port |-> port.val])
                 ELSE None
            ELSE Some([kind |-> "InvalidPortFormat", arg |-> arg])
    ELSE None

\* a variant that leaves a dangerous argument out and goes on
validate_command_args_filtering(args) ==
    LET RECURSIVE loop(_, _)
        loop(i, validated) ==
            IF i > Len(args) THEN Ok(validated)
            ELSE IF is_dangerous(args[i]) THEN loop(i + 1, validated)
            ELSE IF port_argument_error(args[i]) # None
            THEN Err(port_argument_error(args[i]).val)
            ELSE loop(i + 1, Append(validated, args[i]))
    IN loop(1, <<>>)

validate_command_args(args) ==
    LET RECURSIVE loop(_, _)
        loop(i, validated) ==
            IF i > Len(args) THEN Ok(validated)
            ELSE IF is_dangerous(args[i])
            THEN Err([kind |-> "DangerousArgument", arg |-> args[i]])
            ELSE IF port_argument_error(args[i]) # None
            THEN Err(port_argument_error(args[i]).val)
            ELSE loop(i + 1, Append(validated, args[i]))
    IN loop(1, <<>>)

\* the safe list of tests::test_command_validation
SafeArgs == << <<"-","-","p","o","r","t","=","3","0","0","0">>, <<"-","-","v","e","r","b","o","s","e">> >>

\* the arguments of the model
Arguments ==
    { <<"-","-","p","o","r","t","=","3","0","0","0">>, <<"-","-","v","e","r","b","o","s","e">>,
      <<"t","e","s","t",";"," ","r","m"," ","-","r","f"," ","/">>, <<".",".","/",".",".","/","e","t","c","/","p","a","s","s","w","d">>, <<"$","(","i","d",")">>, <<"x"," ",">"," ","/","d","e","v","/","s","d","a">>,
      <<"s","e","r","v","e">>, <<"c","o","n","f","i","g",".","j","s","o","n">>, <<"p","o","r","t","=","8","0">>, <<"a","-","b">> }

RECURSIVE ListsUpTo(_, _)
ListsUpTo(S, n) ==
    IF n = 0 THEN { <<>> }
    ELSE LET shorter == ListsUpTo(S, n - 1)
         IN shorter \cup { Append(l, x) : l \in shorter, x \in S }

ArgLists == ListsUpTo(Arguments, MaxArgs)

\* the call of validate_command_args
ValidateArgsCall ==
    /\ fin.none
    /\ \E args \in ArgLists :
          /\ fin' = [none |-> FALSE, fn |-> "validate_command_args", args |-> args]
          /\ fout' = validate_command_args(args)
    /\ UNCHANGED <<launcherVars, monitorVars, hostVars>>

ArgsNext == ValidateArgsCall

ArgsSpec == Init /\ [][ArgsNext]_vars

(***************************************************************************)
(* Properties of validate_command_args (ArgsSpec)                          *)
(***************************************************************************)
\* C11: called with the safe list ["--port=3000", "--verbose"],
\* validate_command_args succeeds and returns the same elements in the same
\* order.
C11_SafeArgsUnchanged ==
    IF fin.none THEN TRUE
    ELSE fin.args = SafeArgs => fout = Ok(SafeArgs)

\* C12: called with a list of which at least one element, at any position,
\* matches a deny pattern, validate_command_args returns a dangerous-argument
\* error, and with it no list: neither the original nor a part of it.
C12_FailClosed ==
    IF fin.none THEN TRUE
    ELSE (\E i \in 1 .. Len(fin.args) : is_dangerous(fin.args[i])) =>
            /\ ~fout.ok
            /\ fout.err.kind = "DangerousArgument"
            /\ \E i \in 1 .. Len(fin.args) :
                  /\ is_dangerous(fin.args[i])
                  /\ fout.err = [kind |-> "DangerousArgument", arg |-> fin.args[i]]

\* a list whose second element only is dangerous, by path traversal, was
\* rejected
C12_Witness ==
    /\ ~fin.none
    /\ fin.args = << <<"s","e","r","v","e">>, <<".",".","/",".",".","/","e","t","c","/","p","a","s","s","w","d">> >>
    /\ ~fout.ok
    /\ fout.err.kind = "DangerousArgument"

(***************************************************************************)
(* security.rs: validate_port and find_available_port against the sockets  *)
(* of the machine                                                          *)
(***************************************************************************)
\* The ports on which TcpListener::bind(("127.0.0.1", port)) fails: those a
\* socket is bound to (EADDRINUSE) and, for a caller that may not bind
\* privileged ports, those from 1 to 1023 (EACCES).
BindFails(bound, mayBindLow) ==
    bound \cup (IF mayBindLow THEN {} ELSE 1 .. 1023)

\* the ports of the model handed to validate_port (port: u16)
PortInputs == {0, 80, 443, 1023, 1024, 3000, 3001, 8080, 65535}

\* the configurations of the model: allowed_ports of SecurityConfig
PortConfigs ==
    { DefaultConfig,
      [DefaultConfig EXCEPT !.allowed_ports = <<80, 3000>>],
      [DefaultConfig EXCEPT !.allowed_ports = <<443>>],
      [DefaultConfig EXCEPT !.allowed_ports = <<>>] }

\* the sets of ports that some socket is bound to
BoundSets == { {}, {80}, {3000}, {1024, 65535}, {80, 443, 3000, 8080} }

\* the call of validate_port
ValidatePortCall ==
    /\ fin.none
    /\ \E port \in PortInputs, config \in PortConfigs, bound \in BoundSets,
          mayBindLow \in BOOLEAN :
          /\ fin' = [none |-> FALSE, fn |-> "validate_port", port |-> port,
                     config |-> config, bound |-> bound, mayBindLow |-> mayBindLow]
          /\ fout' = validate_port(port, config, BindFails(bound, mayBindLow))
    /\ UNCHANGED <<launcherVars, monitorVars, hostVars>>

PortNext == ValidatePortCall

PortSpec == Init /\ [][PortNext]_vars

\* the bounds of the range find_available_port falls back to: 3000..4000
FallbackFrom == 3000
FallbackTo == 4000

\* a variant that scans the fallback range downwards
find_available_port_descending(config, busy) ==
    LET allowed == config.allowed_ports
        range == FallbackFrom .. (FallbackTo - 1)
        scan ==
            IF \A port \in range : is_port_in_use(port, busy)
            THEN Err([kind |-> "NoAvailablePorts"])
            ELSE Ok(CHOOSE port \in range :
                       /\ ~is_port_in_use(port, busy)
                       /\ \A q \in range : q > port => is_port_in_use(q, busy))
        RECURSIVE first(_)
        first(i) ==
            IF i > Len(allowed) THEN scan
            ELSE IF ~is_port_in_use(allowed[i], busy) THEN Ok(allowed[i])
            ELSE first(i + 1)
    IN first(1)

find_available_port(config, busy) ==
    LET allowed == config.allowed_ports
        range == FallbackFrom .. (FallbackTo - 1)
        \* for port in 3000..4000: the first port of the ascending iteration
        \* that is not in use
        scan ==
            IF \A port \in range : is_port_in_use(port, busy)
            THEN Err([kind |-> "NoAvailablePorts"])
            ELSE Ok(CHOOSE port \in range :
                       /\ ~is_port_in_use(port, busy)
                       /\ \A q \in range : q < port => is_port_in_use(q, busy))
        RECURSIVE first(_)
        \* for port in &config.allowed_ports
        first(i) ==
            IF i > Len(allowed) THEN scan
            ELSE IF ~is_port_in_use(allowed[i], busy) THEN Ok(allowed[i])
            ELSE first(i + 1)
    IN first(1)

FindConfigs ==
    { DefaultConfig,
      [DefaultConfig EXCEPT !.allowed_ports = <<3001, 3000>>],
      [DefaultConfig EXCEPT !.allowed_ports = <<80, 3000>>],
      [DefaultConfig EXCEPT !.allowed_ports = <<5000, 3000>>],
      [DefaultConfig EXCEPT !.allowed_ports = <<80>>],
      [DefaultConfig EXCEPT !.allowed_ports = <<>>] }

FindBoundSets ==
    { {}, {80}, {3000}, {3001}, {3000, 3001}, 3000 .. 3004, {5000} \cup (3000 .. 3500),
      3000 .. 3998, 3000 .. 3999, {80, 5000} \cup (3000 .. 3999) }

\* the call of find_available_port
FindPortCall ==
    /\ fin.none
    /\ \E config \in FindConfigs, bound \in FindBoundSets, mayBindLow \in BOOLEAN :
          /\ fin' = [none |-> FALSE, fn |-> "find_available_port",
                     config |-> config, bound |-> bound, mayBindLow |-> mayBindLow]
          /\ fout' = find_available_port(config, BindFails(bound, mayBindLow))
    /\ UNCHANGED <<launcherVars, monitorVars, hostVars>>

FindNext == FindPortCall

FindSpec == Init /\ [][FindNext]_vars

(***************************************************************************)
(* Properties of validate_port (PortSpec) and find_available_port          *)
(* (FindSpec)                                                              *)
(***************************************************************************)
\* C13: validate_port(P, cfg) returns Ok(P) exactly when P is in
\* cfg.allowed_ports or at least 1024, and no socket is bound to P; a P below
\* 1024 that is not in allowed_ports fails with the port-forbidden error,
\* bound or not; a permitted P that a socket is bound to fails with the
\* port-in-use error.
C13_ValidatePort ==
    IF fin.none THEN TRUE
    ELSE LET P == fin.port
             permitted == P \in Range(fin.config.allowed_ports) \/ P >= 1024
             isBound == P \in fin.bound
         IN /\ (fout = Ok(P)) <=> (permitted /\ ~isBound)
            /\ ~permitted => fout = Err([kind |-> "PortOutsideRange", port |-> P])
            /\ (permitted /\ isBound) => fout = Err([kind |-> "PortInUse", port |-> P])

Digests ==
    { <<>>, GoodHash, <<"E", "6">>, <<"E", "6", "0">>, <<"0", "8">>, <<"f", "f">>,
      ExpectedHash }

\* the call of security::verify_binary_integrity
VerifyCall ==
    /\ fin.none
    /\ \E file \in Files, expected_hash \in Digests :
          /\ fin' = [none |-> FALSE, fn |-> "verify_binary_integrity",
                     file |-> file, expected |-> expected_hash]
          /\ fout' = verify_binary_integrity(file, expected_hash, debug)
    /\ UNCHANGED <<launcherVars, monitorVars, hostVars>>

\* the call of the verify_binary_integrity of main.rs
MainVerifyCall ==
    /\ fin.none
    /\ \E file \in Files, expected_hash \in Digests :
          /\ fin' = [none |-> FALSE, fn |-> "main::verify_binary_integrity",
                     file |-> file, expected |-> expected_hash]
          /\ fout' = main_verify_binary_integrity(file, expected_hash)
    /\ UNCHANGED <<launcherVars, monitorVars, hostVars>>

VerifyNext ==
    \/ VerifyCall
    \/ MainVerifyCall

VerifySpec == Init /\ [][VerifyNext]_vars

(***************************************************************************)
(* Properties of verify_binary_integrity (VerifySpec)                      *)
(***************************************************************************)
\* the hexadecimal text with its letters in lower case
AsciiLower(s) ==
    [i \in DOMAIN s |->
        CASE s[i] = "A" -> "a" [] s[i] = "B" -> "b" [] s[i] = "C" -> "c"
          [] s[i] = "D" -> "d" [] s[i] = "E" -> "e" [] s[i] = "F" -> "f"
          [] OTHER -> s[i]]

\* the digest of the whole content of a binary, in hexadecimal
ContentHash(file) == LowerHex(Sha256Finalize(Sha256Update(Sha256New, file.bytes)))

\* the call failed on opening or reading the file
IoFailure(r) == ~r.ok /\ r.err.kind \in {"OpenFailed", "ReadFailed"}

\* C15: for a readable binary B and a non-empty digest D,
\* verify_binary_integrity(B, D) succeeds exactly when the hash of the whole
\* content of B equals D, the case of the hexadecimal letters set aside; a
\* differing digest is rejected by security.rs with a mismatch error that
\* carries the expected and the computed value.
C15_VerifyIffDigestMatches ==
    IF fin.none THEN TRUE
    ELSE (fin.file.kind = "ok" /\ fin.expected # <<>>) =>
            LET same == AsciiLower(fin.expected) = ContentHash(fin.file)
            IN IF fin.fn = "verify_binary_integrity"
               THEN /\ (fout = Ok(Unit)) <=> same
                    /\ ~same => fout = Err([kind |-> "IntegrityMismatch",
                                            expected |-> fin.expected,
                                            got |-> ContentHash(fin.file)])
               ELSE (fout = Ok(TRUE)) <=> same

\* C17 as stated: when the binary cannot be opened or read,
\* verify_binary_integrity fails with an I/O failure, for every expected
\* digest, the empty one included, and in every build mode.
C17_UnreadableIsIoFailure ==
    IF fin.none THEN TRUE
    ELSE (fin.fn = "verify_binary_integrity" /\ fin.file.kind # "ok") =>
            IoFailure(fout)

\* C17, amended: when the binary cannot be opened or read,
\* verify_binary_integrity fails with an I/O failure for every non-empty
\* expected digest, in every build mode; with the empty digest the file is
\* not opened, and the call fails with the configuration-missing error in a
\* production build and succeeds in a debug build.
C17_UnreadableIsIoFailureUnlessEmpty ==
    IF fin.none THEN TRUE
    ELSE (fin.fn = "verify_binary_integrity" /\ fin.file.kind # "ok") =>
            IF fin.expected # <<>> THEN IoFailure(fout)
            ELSE IF debug THEN fout = Ok(Unit)
            ELSE fout = Err([kind |-> "HashNotConfigured"])

\* a binary that fails on read was checked against the digest of its content
\* and the call failed on the read
C17_Witness ==
    /\ ~fin.none
    /\ fin.fn = "verify_binary_integrity"
    /\ fin.file = [kind |-> "unreadable", bytes |-> <<1, 2, 3>>]
    /\ fin.expected = GoodHash
    /\ fout = Err([kind |-> "ReadFailed"])

(***************************************************************************)
(* Launching with the digest left unpinned: spawn_secure_sidecar under the *)
(* default configuration, whose binary_hash is empty, and the setup of     *)
(* main.rs, whose expected hash is the placeholder (DigestSpec)            *)
(***************************************************************************)
UnpinnedSpawn == SpawnWith(Files, {3000}, {DefaultConfig}, { {} })

DigestNext ==
    \/ UnpinnedSpawn
    \/ Setup

DigestSpec == Init /\ [][DigestNext]_vars

\* C16: with the digest empty or left as the placeholder, a production build
\* creates no process: spawn_secure_sidecar fails at the verification with the
\* configuration-missing error, which only a debug build passes, and the
\* setup of the host returns an error before it spawns.
C16_UnpinnedNeverSpawnsInProduction ==
    /\ IF lastSpawn = None THEN TRUE
       ELSE lastSpawn.config.binary_hash = <<>> =>
              IF debug
              THEN /\ verify_binary_integrity(lastSpawn.binary, <<>>, debug) = Ok(Unit)
                   /\ Len(lastSpawn.steps) >= 2
              ELSE /\ verify_binary_integrity(lastSpawn.binary, <<>>, debug)
                          = Err([kind |-> "HashNotConfigured"])
                   /\ lastSpawn.result = Err([kind |-> "HashNotConfigured"])
                   /\ lastSpawn.steps = <<"verify">>
                   /\ lastSpawn.pid = 0
    /\ ~debug => /\ \A q \in Pids : procs[q].state = "none"
                 /\ hostPc \in {"start", "setup_failed"}
                 /\ sidecar = "none"
                 /\ sidecarPort = None

\* a production build was asked to launch through both paths, with an intact
\* binary: the launcher failed for the missing configuration and the setup
\* of the host failed
C16_Witness ==
    /\ ~debug
    /\ lastSpawn # None
    /\ lastSpawn.binary = [kind |-> "ok", bytes |-> <<1, 2, 3>>]
    /\ lastSpawn.result = Err([kind |-> "HashNotConfigured"])
    /\ hostPc = "setup_failed"

(***************************************************************************)
(* The environment of the worker: a map from variable names to values,     *)
(* built as std::process::Command builds it (EnvSpec)                      *)
(***************************************************************************)
\* an environment without variables
EmptyEnv == [name \in {} |-> <<>>]

\* Command::env_clear: nothing is left of the inherited environment
EnvClear(env) == EmptyEnv

\* Command::env(key, val)
SetEnv(env, key, val) ==
    [name \in DOMAIN env \cup {key} |-> IF name = key THEN val ELSE env[name]]

\* u16::to_string: the decimal digits
RECURSIVE to_string(_)
to_string(n) ==
    IF n < 10 THEN <<HexDigits[n + 1]>>
    ELSE Append(to_string(n \div 10), HexDigits[(n % 10) + 1])

\* security.rs, spawn_secure_sidecar: Command::new, env_clear and three env
\* calls; a new Command starts from the environment of the host
secure_sidecar_env(host_env, safe_port) ==
    LET cmd == host_env
    IN SetEnv(SetEnv(SetEnv(EnvClear(cmd), "PORT", to_string(safe_port)),
                     "NODE_ENV", <<"p","r","o","d","u","c","t","i","o","n">>),
              "RUST_LOG", <<"e","r","r","o","r">>)

\* main.rs, setup: app.shell().sidecar(..) and two env calls, without
\* env_clear: the command keeps the environment of the host
main_sidecar_env(host_env, port) ==
    SetEnv(SetEnv(host_env, "PORT", to_string(port)),
           "SEQUB_ENV", <<"p","r","o","d","u","c","t","i","o","n">>)

\* the environments of the host in the model
HostEnvs ==
    { EmptyEnv,
      [PATH |-> <<"/","u","s","r","/","b","i","n">>],
      [PATH |-> <<"/","u","s","r","/","b","i","n">>, LD_PRELOAD |-> <<"/","t","m","p","/","x",".","s","o">>],
      [PATH |-> <<"/","b","i","n">>, PORT |-> <<"9">>, NODE_ENV |-> <<"d","e","v","e","l","o","p","m","e","n","t">>,
       RUST_LOG |-> <<"t","r","a","c","e">>, SEQUB_ENV |-> <<"t","e","s","t">>] }

\* the ports the worker is launched on
EnvPorts == {1024, 3000, 3004, 8080, 49152, 65535}

\* the worker is created by spawn_secure_sidecar
SecureLaunch ==
    /\ fin.none
    /\ \E host_env \in HostEnvs, port \in EnvPorts :
          /\ fin' = [none |-> FALSE, fn |-> "spawn_secure_sidecar",
                     host_env |-> host_env, port |-> port]
          /\ fout' = secure_sidecar_env(host_env, port)
    /\ UNCHANGED <<launcherVars, monitorVars, hostVars>>

\* the worker is created by the setup of main.rs
HostLaunch ==
    /\ fin.none
    /\ \E host_env \in HostEnvs, port \in EnvPorts :
          /\ fin' = [none |-> FALSE, fn |-> "main", host_env |-> host_env,
                     port |-> port]
          /\ fout' = main_sidecar_env(host_env, port)
    /\ UNCHANGED <<launcherVars, monitorVars, hostVars>>

EnvNext ==
    \/ SecureLaunch
    \/ HostLaunch

EnvSpec == Init /\ [][EnvNext]_vars

\* C18: whatever the environment of the host, the environment given to the
\* worker is the same three variables with the same values: the resolved
\* port, the runtime-mode marker and the log-level marker; no variable of the
\* host is inherited, on every launch path.
C18_WorkerEnvIndependentOfHost ==
    IF fin.none THEN TRUE
    ELSE /\ Cardinality(DOMAIN fout) = 3
         /\ \A other \in HostEnvs :
               fout = IF fin.fn = "main" THEN main_sidecar_env(other, fin.port)
                      ELSE secure_sidecar_env(other, fin.port)
         /\ fout = [PORT |-> to_string(fin.port), NODE_ENV |-> <<"p","r","o","d","u","c","t","i","o","n">>,
                    RUST_LOG |-> <<"e","r","r","o","r">>]

(***************************************************************************)
(* security.rs: validate_ipc_message                                       *)
(***************************************************************************)
\* the cap on message.len()
MaxMessageLen == 10000

LowerLetters == <<"a","b","c","d","e","f","g","h","i","j","k","l","m","n","o","p","q","r","s","t","u","v","w","x","y","z">>
UpperLetters == <<"A","B","C","D","E","F","G","H","I","J","K","L","M","N","O","P","Q","R","S","T","U","V","W","X","Y","Z">>

\* the letter e with an acute accent, U+00E9: two bytes in UTF-8, and a
\* character a string of TLA+ cannot hold
EAcute == "U+00E9"

\* str::len: the number of bytes of the UTF-8 encoding
ByteLen(s) == Len(s) + Cardinality({ i \in DOMAIN s : s[i] = EAcute })

\* the class \w of the regex crate, as far as the texts of the model go
WordChars == Range(LowerLetters) \cup Range(UpperLetters) \cup {"0","1","2","3","4","5","6","7","8","9", "_", EAcute}

\* the text pat stands in s from position i on
LiteralAt(s, i, pat) ==
    /\ i + Len(pat) - 1 <= Len(s)
    /\ \A k \in 1 .. Len(pat) : s[i + k - 1] = pat[k]

\* a regex that is a literal text: some part of s is that text
MatchLiteral(s, pat) == \E i \in 1 .. Len(s) : LiteralAt(s, i, pat)

\* a regex of the form left gap right, the gap being at least minGap
\* characters of the class gapClass: some part of s matches
MatchGapped(s, left, gapClass, minGap, right) ==
    \E i \in 1 .. Len(s) :
        /\ LiteralAt(s, i, left)
        /\ \E j \in (i + Len(left) + minGap) .. Len(s) :
              /\ \A k \in (i + Len(left)) .. (j - 1) : s[k] \in gapClass
              /\ LiteralAt(s, j, right)

\* r"<script"
MatchScriptTag(s) == MatchLiteral(s, <<"<","s","c","r","i","p","t">>)

\* r"javascript:"
MatchScriptUri(s) == MatchLiteral(s, <<"j","a","v","a","s","c","r","i","p","t",":">>)

\* r"on\w+\s*="
MatchEventHandler(s) ==
    \E i \in 1 .. Len(s) :
        /\ LiteralAt(s, i, <<"o","n">>)
        /\ \E j \in (i + 2) .. Len(s) :
              /\ \A k \in (i + 2) .. j : s[k] \in WordChars
              /\ \E m \in (j + 1) .. Len(s) :
                    /\ \A k \in (j + 1) .. (m - 1) : s[k] \in RegexSpace
                    /\ s[m] = "="

\* r"eval\s*\("
MatchEval(s) == MatchGapped(s, <<"e","v","a","l">>, RegexSpace, 0, <<"(">>)

\* r"new\s+Function"
MatchNewFunction(s) == MatchGapped(s, <<"n","e","w">>, RegexSpace, 1, <<"F","u","n","c","t","i","o","n">>)

\* a variant that looks at the content before the length
validate_ipc_message_content_first(message) ==
    IF \/ MatchScriptTag(message)
       \/ MatchScriptUri(message)
       \/ MatchEventHandler(message)
       \/ MatchEval(message)
       \/ MatchNewFunction(message)
    THEN Err([kind |-> "MaliciousContent"])
    ELSE IF ByteLen(message) > MaxMessageLen
    THEN Err([kind |-> "MessageTooLarge"])
    ELSE Ok(message)

validate_ipc_message(message) ==
    IF ByteLen(message) > MaxMessageLen
    THEN Err([kind |-> "MessageTooLarge"])
    ELSE IF \/ MatchScriptTag(message)
            \/ MatchScriptUri(message)
            \/ MatchEventHandler(message)
            \/ MatchEval(message)
            \/ MatchNewFunction(message)
    THEN Err([kind |-> "MaliciousContent"])
    ELSE Ok(message)

\* n times the character c
Repeat(c, n) == [i \in 1 .. n |-> c]

\* the texts the messages of the model are made of
MessageCores ==
    { <<>>, <<"h","e","l","l","o">>, <<"{","\"","t","y","p","e","\"",":"," ","\"","r","e","q","u","e","s","t","\"",","," ","\"","d","a","t","a","\"",":"," ","\"","h","e","l","l","o","\"","}">>,
      <<"<","s","c","r","i","p","t",">","a","l","e","r","t","(","'","x","s","s","'",")","<","/","s","c","r","i","p","t",">">>, <<"e","v","a","l","(","'","m","a","l","i","c","i","o","u","s"," ","c","o","d","e","'",")">>,
      <<"<","S","C","R","I","P","T",">","a","l","e","r","t","(","1",")","<","/","S","C","R","I","P","T",">">>, <<"j","a","v","a","s","c","r","i","p","t",":","a","l","e","r","t","(","1",")">>,
      <<"J","a","v","a","S","c","r","i","p","t",":","a","l","e","r","t","(","1",")">>, <<"<","i","m","g"," ","o","n","e","r","r","o","r","=","a","l","e","r","t","(","1",")",">">>,
      <<"<","i","m","g"," ","O","N","E","R","R","O","R","=","a","l","e","r","t","(","1",")",">">>, <<"n","e","w"," ","F","u","n","c","t","i","o","n","(","\"","x","\"",")">>, <<"e","v","a","l"," "," ","(","x",")">>,
      <<"e","v","a","l","u","a","t","e","(","x",")">>, <<"o","n","=","1">>, <<"{","\"","q","\"",":"," ","\"","c","o","n","n"," ","="," ","1","\"","}">>,
      <<"c", "a", "f", EAcute>> }

\* the lengths of the padding put before a text
PadLens == {0, 1, 9980, 9996}

Messages ==
    { Repeat("a", n) \o core : n \in PadLens, core \in MessageCores }
      \cup { Repeat(EAcute, 5000), Repeat(EAcute, 5001) }

\* the call of validate_ipc_message
ValidateIpcCall ==
    /\ fin.none
    /\ \E message \in Messages :
          /\ fin' = [none |-> FALSE, fn |-> "validate_ipc_message",
                     message |-> message]
          /\ fout' = validate_ipc_message(message)
    /\ UNCHANGED <<launcherVars, monitorVars, hostVars>>

IpcNext == ValidateIpcCall

IpcSpec == Init /\ [][IpcNext]_vars

(***************************************************************************)
(* Properties of validate_ipc_message (IpcSpec)                            *)
(***************************************************************************)
\* the text with its ASCII letters in lower case: the names of HTML tags and
\* attributes and of URI schemes are read without regard to case
ToAsciiLower(s) ==
    [i \in DOMAIN s |->
        IF s[i] \in Range(UpperLetters)
        THEN LowerLetters[CHOOSE n \in DOMAIN UpperLetters : UpperLetters[n] = s[i]]
        ELSE s[i]]

\* the message holds a script tag, a script URI, an inline event-handler
\* attribute, or a call that evaluates code
HasInjection(m) ==
    \/ MatchScriptTag(ToAsciiLower(m))
    \/ MatchScriptUri(ToAsciiLower(m))
    \/ MatchEventHandler(ToAsciiLower(m))
    \/ MatchEval(m)
    \/ MatchNewFunction(m)

\* C19: validate_ipc_message rejects every message of more than 10,000 bytes
\* with the message-too-large error, whatever its content; rejects every
\* message within the cap that holds a script tag, a script URI, an inline
\* event-handler attribute or a call that evaluates code with the
\* malicious-content error; and returns every other message unchanged.
C19_IpcMessage ==
    IF fin.none THEN TRUE
    ELSE LET m == fin.message
         IN IF ByteLen(m) > 10000 THEN fout = Err([kind |-> "MessageTooLarge"])
            ELSE IF HasInjection(m) THEN fout = Err([kind |-> "MaliciousContent"])
            ELSE fout = Ok(m)

(***************************************************************************)
(* Properties of the setup of the host (HostSpec)                          *)
(***************************************************************************)
\* C20: the host is never usable without a worker: the port is recorded in
\* SidecarState, and get_server_port succeeds, only once the sidecar was
\* spawned; when the integrity check or the spawn fails, setup ends in a fatal
\* condition with the port unknown, no draining task and no close handler.
C20_NoServiceWithoutWorker ==
    /\ (sidecarPort # None \/ everOk \/ task # "none" \/ closeHandler)
          => sidecar # "none"
    /\ hostPc \in {"setup_failed", "panicked"}
          => /\ sidecar = "none"
             /\ sidecarPort = None
             /\ task = "none"
             /\ ~closeHandler
             /\ ~everOk
    /\ hostPc \in {"running", "closing"} => sidecar # "none"

\* the spawn of the sidecar failed and setup ended by a panic, the port
\* unknown
C20_Witness ==
    /\ hostPc = "panicked"
    /\ sidecarPort = None
    /\ sidecar = "none"

(***************************************************************************)
(* ProcessMonitor::check_limits on a worker that is running while its      *)
(* status is read: the comparison of the resident size with the limit      *)
(* (MemSpec)                                                               *)
(***************************************************************************)
\* resident sizes in kB, as the VmRSS line gives them
MemRss ==
    {0, 1, 1023, 1024, 1025, 2047, 2048, 2049, 524287, 524288, 524289, 525311,
     525312, 1048576, 1049600}

\* max_memory_mb of the configuration
MemLimits == {0, 1, 2, 512, 1024}

\* the process table with the worker, process 1, running at a resident size
WorkerAt(rss) ==
    [p \in Pids |-> IF p = 1
                    THEN [state |-> "running", ignoresTerm |-> FALSE,
                          sandboxFlag |-> TRUE, isolation |-> {}, rssKb |-> rss]
                    ELSE NoProc]

\* the call of check_limits on the running worker
CheckMemoryCall ==
    /\ fin.none
    /\ \E rss \in MemRss, limit \in MemLimits :
          LET mon == ProcessMonitor_new(1, [DefaultConfig EXCEPT !.max_memory_mb = limit])
          IN /\ fin' = [none |-> FALSE, fn |-> "check_limits", rss |-> rss,
                        limit |-> limit]
             /\ fout' = check_memory(WorkerAt(rss), mon)
    /\ UNCHANGED <<launcherVars, monitorVars, hostVars>>

MemNext == CheckMemoryCall

MemSpec == Init /\ [][MemNext]_vars

\* C21: check_limits, measuring a resident size of R kB against a limit of
\* L MB, returns the limit-exceeded error whenever R > L * 1024, by however
\* little, and Ok whenever R <= L * 1024.
C21_LimitExceededIffAbove ==
    IF fin.none THEN TRUE
    ELSE IF fin.rss > fin.limit * 1024
         THEN ~fout.ok /\ fout.err.kind = "MemoryExceeded"
         ELSE fout = Ok(Unit)

(***************************************************************************)
(* ProcessMonitor::kill_process on any pid of 32 bits: libc::kill on a     *)
(* system of processes with their groups (KillSpec)                        *)
(***************************************************************************)
\* i32::MAX and i32::MIN
I32Max == 2147483647
I32Min == -I32Max - 1

\* a number of 32 bits without sign: its top bit and its 31 low bits
U32(top, low) == [top |-> top, low |-> low]

\* `self.pid as i32`: the same 32 bits read as a signed number
AsI32(u) == IF u.top = 1 THEN (u.low - I32Max) - 1 ELSE u.low

\* the process of the host and the identifier of its process group
HostPid == 100

\* the processes of the system: the host, its worker in the group of the
\* host, a process of another session of the same user with its child, and a
\* process of another user
AllProcesses ==
    { [pid |-> 100, pgid |-> 100, own |-> TRUE],
      [pid |-> 101, pgid |-> 100, own |-> TRUE],
      [pid |-> 200, pgid |-> 200, own |-> TRUE],
      [pid |-> 201, pgid |-> 200, own |-> TRUE],
      [pid |-> 300, pgid |-> 300, own |-> FALSE] }

\* the systems of the model: the host is always there
Systems ==
    { sys \in SUBSET AllProcesses : \E p \in sys : p.pid = HostPid }

\* the processes libc::kill(pid, sig) of the host selects, kill(2): the
\* process pid for a positive pid; the group of the caller for 0; every
\* process but the caller for -1; the group -pid for another negative pid,
\* none for i32::MIN, whose negation is no identifier
kill_selects(sys, pid) ==
    IF pid > 0 THEN { p \in sys : p.pid = pid }
    ELSE IF pid = 0 THEN { p \in sys : p.pgid = HostPid }
    ELSE IF pid = -1 THEN { p \in sys : p.pid # HostPid }
    ELSE IF pid = I32Min THEN {}
    ELSE { p \in sys : p.pgid = -pid }

\* libc::kill(pid, sig) of the host: the signal goes to those of the selected
\* processes the caller may signal; 0 when it went to one at least, else -1
libc_kill_any(sys, pid, sig) ==
    LET hit == { p \in kill_selects(sys, pid) : p.own }
    IN [ret |-> IF hit = {} THEN -1 ELSE 0,
        delivered |-> { [pid |-> p.pid, sig |-> sig] : p \in hit }]

\* ProcessMonitor::kill_process, cfg(unix), with the conversion of the pid:
\* its result and the signals it delivered
kill_process_u32(sys, self_pid) ==
    LET r1 == libc_kill_any(sys, AsI32(self_pid), SIGTERM)
    IN IF r1.ret # 0
       THEN LET r2 == libc_kill_any(sys, AsI32(self_pid), SIGKILL)
            IN [result |-> IF r2.ret # 0 THEN Err([kind |-> "FailedToKill"])
                           ELSE Ok(Unit),
                delivered |-> r1.delivered \cup r2.delivered]
       ELSE [result |-> Ok(Unit), delivered |-> r1.delivered]

\* the pids a ProcessMonitor of the model holds (pid: u32)
\* 0, some pids below 2^31, then 2^31, 2^31 + 1, 2^32 - 300, 2^32 - 200,
\* 2^32 - 100 and 2^32 - 1
MonitorPids ==
    { U32(0, 0), U32(0, 1), U32(0, 7), U32(0, 101), U32(0, 200), U32(0, 300),
      U32(1, 0), U32(1, 1), U32(1, I32Max - 299), U32(1, I32Max - 199),
      U32(1, I32Max - 99), U32(1, I32Max) }

\* the call of kill_process on a ProcessMonitor::new(pid, config)
KillAnyCall ==
    /\ fin.none
    /\ \E sys \in Systems, pid \in MonitorPids :
          LET mon == ProcessMonitor_new(pid, DefaultConfig)
          IN /\ fin' = [none |-> FALSE, fn |-> "kill_process", sys |-> sys,
                        pid |-> mon.pid]
             /\ fout' = kill_process_u32(sys, mon.pid)
    /\ UNCHANGED <<launcherVars, monitorVars, hostVars>>

KillNext == KillAnyCall

KillSpec == Init /\ [][KillNext]_vars

\* C22: kill_process signals the one process whose identifier is the pid of
\* the monitor, for every pid of 32 bits the monitor holds, 0 and the values
\* from 2^31 on included: no signal goes to a process with another
\* identifier, so none to a process group or to the host's own group.
C22_SignalsOnlyItsPid ==
    IF fin.none THEN TRUE
    ELSE \A d \in fout.delivered : fin.pid.top = 0 /\ d.pid = fin.pid.low

====
